---- MODULE Spec2Model ----
\* Parallel memory copy of MMCore (TaskSet_CopyMemory) on a shared ThreadPool.
\*
\* Memory is modelled symbolically: the content of a source buffer is named by a
\* version number (every byte of every version is a distinct symbolic value), and
\* the content of a destination buffer is a set of disjoint segments
\*   [lo, hi, from, buf, ver]
\* saying that bytes [lo, hi) of the destination hold bytes [from, from + hi - lo)
\* of source buffer buf as they were at version ver.  Bytes covered by no segment
\* hold whatever was there before (never equal to a source byte).
EXTENDS Integers, Sequences, FiniteSets

\* ---------------------------------------------------------------- bounds
MaxPool == 4            \* pool sizes 1..MaxPool (single TaskSet)
MaxVer == 2             \* source contents 1..MaxVer
MaxTaskSets == 2        \* TaskSets sharing one pool in SpecShared
MaxPoolShared == 2      \* pool sizes 1..MaxPoolShared in SpecShared
MaxPoolSmall == 2       \* pool sizes 1..MaxPoolSmall in SpecFair and SpecAssert

\* Transfer sizes a caller may pass: below, at and above the threshold,
\* divisible and not divisible by the task count.
ByteSizes == {500000, 1000000, 2000001, 3500000}
SharedSizes == {500000, 2000001}
\* Sizes handed to the task slots directly (SpecChunks), any task count.
ChunkSizes == {1, 2, 3, 7, 999999, 1000000, 2000001, 3500000, 4000003}

\* ---------------------------------------------------------------- constants
NULL == 0
Threshold == 1000000

TaskSets == 1..MaxTaskSets
SrcBuf(t) == 2 * t - 1          \* the caller's source buffer of TaskSet t
DstBuf(t) == 2 * t              \* the caller's destination buffer of TaskSet t
Buffers == UNION {{SrcBuf(t), DstBuf(t)} : t \in TaskSets}

Min(a, b) == IF a < b THEN a ELSE b

VARIABLES
    poolSize,        \* ThreadPool: number of worker threads (fixed)
    owners,          \* the TaskSets constructed on the pool (fixed)
    ndebug,          \* the build defines NDEBUG: assert() compiles to nothing (fixed)
    queue,           \* ThreadPool: work queue, a sequence of <<taskset, index>>
    running,         \* tasks dequeued by a worker, Execute() not yet finished
    finished,        \* tasks whose Execute() returned, Done() not yet called
    usedTaskCount,   \* TaskSet::usedTaskCount_, per TaskSet
    tasks,           \* TaskSet::tasks_, per TaskSet: index -> ATask fields
    semaphore,       \* TaskSet::semaphore_, per TaskSet: pending signals
    pc,              \* where each caller is inside MemCopy
    args,            \* arguments of the current/last MemCopy of each caller
    mem,             \* destination buffers: buffer -> set of segments
    srcVer,          \* source buffers: buffer -> content version
    submitted,       \* tasks submitted by Execute() in the current invocation
    signalled,       \* signals delivered in the current invocation
    copied,          \* indices of the tasks whose Execute() returned in the
                     \* current invocation
    repeatOf         \* when a call repeats the previous call's arguments: the
                     \* observable state the previous call left, else NoReturn

\* NIDAQ DigitalOutputPort: the fields of one port, then its hardware and the
\* record of its calls.
VARIABLES
    initialized_,
    sequenceRunning_,
    blanking_,
    pos_,
    portWidth_,
    supportsBlankingAndSequencing_,
    task_,
    sequence8_,
    sequence16_,
    sequence32_,
    hwWidth,         \* the width DAQmxGetPhysicalChanDOPortWidth reports (fixed)
    niTasks,         \* the driver's live tasks
    out,             \* the sample last written to the port
    last,            \* the last call of a handler and its outcome
    sinceStart       \* a StartSequence succeeded and no StopSequence followed

\* The fields of the port object.
portFields == <<initialized_, sequenceRunning_, blanking_, pos_, portWidth_,
                supportsBlankingAndSequencing_, task_,
                sequence8_, sequence16_, sequence32_>>

\* The port with its hardware and the record of its calls.
portVars == <<hwWidth, portFields, niTasks, out, last, sinceStart>>

\* The TaskSets and their pool.
tsVars == <<poolSize, owners, ndebug, queue, running, finished, usedTaskCount, tasks,
            semaphore, pc, args, mem, srcVer, submitted, signalled, copied,
            repeatOf>>

vars == <<tsVars, portVars>>

poolVars == <<queue, running, finished>>


\* What no operation of a TaskSet or of the pool changes.
fixedVars == <<poolSize, owners, ndebug, portVars>>

\* ---------------------------------------------------------------- memory
\* What is left of segment s once [lo, hi) has been overwritten.
Remainder(s, lo, hi) ==
    {p \in {[s EXCEPT !.hi = Min(s.hi, lo)],
            [s EXCEPT !.lo = IF hi > s.lo THEN hi ELSE s.lo,
                      !.from = s.from + ((IF hi > s.lo THEN hi ELSE s.lo) - s.lo)]} :
        p.lo < p.hi /\ (p.hi <= lo \/ p.lo >= hi)}

\* std::memcpy of len > 0 bytes through a null pointer: the process does not
\* get to write anything.
Faults(dst, src, len) == len > 0 /\ (dst = NULL \/ src = NULL)

\* std::memcpy(dst + dstOff, src + srcOff, len) on the symbolic memory m,
\* the source buffers holding the versions sv.
Memcpy(m, sv, dst, dstOff, src, srcOff, len) ==
    IF len = 0 \/ Faults(dst, src, len) THEN m
    ELSE [m EXCEPT ![dst] =
            UNION {Remainder(s, dstOff, dstOff + len) : s \in m[dst]}
            \cup {[lo |-> dstOff, hi |-> dstOff + len, from |-> srcOff,
                   buf |-> src, ver |-> sv[src]]}]

\* The symbolic byte at position p of a buffer holding segs.
Content(segs, p) ==
    IF \E s \in segs : s.lo <= p /\ p < s.hi
    THEN LET s == CHOOSE s \in segs : s.lo <= p /\ p < s.hi
         IN  <<s.buf, s.ver, s.from + (p - s.lo)>>
    ELSE <<>>

\* Two buffers hold the same bytes (content is piecewise determined by the
\* segment ends, so comparing at every segment end compares every byte).
SameContent(a, b) ==
    \A p \in {s.lo : s \in a \cup b} \cup {s.hi : s \in a \cup b} :
        Content(a, p) = Content(b, p)

\* dst[0..bytes) equals src[0..bytes) as of version ver.
Equal(segs, bytes, src, ver) ==
    LET good == {s \in segs : s.buf = src /\ s.ver = ver /\ s.from = s.lo}
    IN  \A p \in {0} \cup {s.hi : s \in segs} :
            p < bytes => \E g \in good : g.lo <= p /\ p < g.hi

\* ---------------------------------------------------------------- ATask
\* ATask::ATask: parameters cleared, usedTaskCount_ = totalTaskCount.
NewATask(taskIndex, totalTaskCount) ==
    [taskIndex |-> taskIndex, usedTaskCount |-> totalTaskCount,
     dst |-> NULL, src |-> NULL, bytes |-> 0]

\* ATask::SetUp
ATaskSetUp(task, dst, src, bytes, used) ==
    [task EXCEPT !.dst = dst, !.src = src, !.bytes = bytes, !.usedTaskCount = used]

\* (mutant) the last task does not take the remainder.
ChunkBytesNoRemainder(task) == task.bytes \div task.usedTaskCount

\* (mutant) every chunk is rounded up, so neighbouring chunks overlap.
ChunkBytesRoundedUp(task) ==
    (task.bytes + task.usedTaskCount - 1) \div task.usedTaskCount

\* ATask::Execute: chunkBytes as passed to memcpy.
ChunkBytes(task) ==
    IF task.taskIndex = task.usedTaskCount - 1
    THEN (task.bytes \div task.usedTaskCount) + (task.bytes % task.usedTaskCount)
    ELSE task.bytes \div task.usedTaskCount

\* (mutant) the offset is computed after the remainder was added to chunkBytes.
ChunkOffsetAfterRemainder(task) == task.taskIndex * ChunkBytes(task)

\* ATask::Execute: chunkOffset.
ChunkOffset(task) == task.taskIndex * (task.bytes \div task.usedTaskCount)

\* (mutant) the index test is missing: every slot copies.
IsUsedAlways(task) == TRUE

\* ATask::Execute: the slot takes part in the invocation.
IsUsed(task) == task.taskIndex < task.usedTaskCount

\* ATask::Execute: the memcpy calls the task makes (none for an unused slot).
ATaskExecute(task) ==
    IF ~IsUsed(task) THEN {}
    ELSE {[dst |-> task.dst, dstOff |-> ChunkOffset(task),
           src |-> task.src, srcOff |-> ChunkOffset(task),
           len |-> ChunkBytes(task)]}

\* The memory after the memcpy calls in ops.
RECURSIVE Apply(_, _, _)
Apply(m, sv, ops) ==
    IF ops = {} THEN m
    ELSE LET op == CHOOSE o \in ops : TRUE
         IN  Apply(Memcpy(m, sv, op.dst, op.dstOff, op.src, op.srcOff, op.len),
                   sv, ops \ {op})

\* ---------------------------------------------------------------- TaskSet
\* (mutant) the "1 +" is missing.
UsedTaskCountNoBase(bytes, size) == Min(bytes \div Threshold, size)

\* usedTaskCount_ = std::min<size_t>(1 + bytes / 1000000, tasks_.size())
UsedTaskCount(bytes, size) == Min(1 + (bytes \div Threshold), size)

\* What a caller can observe of TaskSet t between two calls.
Outstanding(t) ==
    {k \in running \cup finished : k[1] = t}
    \cup {queue[j] : j \in {j \in DOMAIN queue : queue[j][1] = t}}

Observable(t) ==
    [args |-> args[t], dst |-> mem[DstBuf(t)], usedTaskCount |-> usedTaskCount[t],
     semaphore |-> semaphore[t], outstanding |-> Outstanding(t)]

NoReturn == [args |-> [dst |-> NULL, src |-> NULL, bytes |-> 0, ver |-> 0]]

CallSizes == IF Cardinality(owners) = 1 THEN ByteSizes ELSE SharedSizes
CallVers == IF Cardinality(owners) = 1 THEN 1..MaxVer ELSE {1}

\* (mutant) usedTaskCount_ is one variable shared by all TaskSets.
SetUpStatic(t, dst, src, bytes) ==
    LET used == UsedTaskCount(bytes, poolSize) IN
    /\ usedTaskCount' = [x \in TaskSets |-> used]
    /\ IF used = 1
       THEN /\ mem' = Memcpy(mem, srcVer', dst, 0, src, 0, bytes)
            /\ tasks' = tasks
       ELSE /\ mem' = mem
            /\ tasks' = [tasks EXCEPT ![t] =
                  [i \in DOMAIN tasks[t] |-> ATaskSetUp(tasks[t][i], dst, src, bytes, used)]]

\* (mutant) the inline memcpy is not guarded by usedTaskCount_ == 1.
SetUpCopyAlways(t, dst, src, bytes) ==
    LET used == UsedTaskCount(bytes, poolSize) IN
    /\ usedTaskCount' = [usedTaskCount EXCEPT ![t] = used]
    /\ mem' = Memcpy(mem, srcVer', dst, 0, src, 0, bytes)
    /\ IF used = 1
       THEN tasks' = tasks
       ELSE tasks' = [tasks EXCEPT ![t] =
                [i \in DOMAIN tasks[t] |-> ATaskSetUp(tasks[t][i], dst, src, bytes, used)]]

\* TaskSet_CopyMemory::SetUp(dst, src, bytes), entered from MemCopy.
SetUp(t, dst, src, bytes) ==
    LET used == UsedTaskCount(bytes, poolSize) IN
    /\ usedTaskCount' = [usedTaskCount EXCEPT ![t] = used]
    /\ IF used = 1
       THEN /\ mem' = Memcpy(mem, srcVer', dst, 0, src, 0, bytes)
            /\ tasks' = tasks
       ELSE /\ mem' = mem
            /\ tasks' = [tasks EXCEPT ![t] =
                  [i \in DOMAIN tasks[t] |-> ATaskSetUp(tasks[t][i], dst, src, bytes, used)]]

\* TaskSet_CopyMemory::MemCopy: the caller fills the source buffer and calls
\* SetUp; Execute and Wait follow as the caller's next steps.
MemCopy(t) ==
    /\ t \in owners
    /\ pc[t] \in {"idle", "returned"}
    /\ \E bytes \in CallSizes, v \in CallVers :
        /\ srcVer' = [srcVer EXCEPT ![SrcBuf(t)] = v]
        /\ args' = [args EXCEPT ![t] = [dst |-> DstBuf(t), src |-> SrcBuf(t),
                                        bytes |-> bytes, ver |-> v]]
        /\ repeatOf' = [repeatOf EXCEPT ![t] =
                IF args'[t] = args[t] THEN Observable(t) ELSE NoReturn]
        /\ SetUp(t, DstBuf(t), SrcBuf(t), bytes)
    /\ pc' = [pc EXCEPT ![t] = "execute"]
    /\ submitted' = [submitted EXCEPT ![t] = 0]
    /\ signalled' = [signalled EXCEPT ![t] = 0]
    /\ copied' = [copied EXCEPT ![t] = {}]
    /\ UNCHANGED <<fixedVars, poolVars, semaphore>>

\* (mutant) assert(bytes > 0) is missing.
AssertsPassNoBytes(dst, src, bytes) == dst # NULL /\ src # NULL

\* TaskSet_CopyMemory::SetUp: the three assertions hold.
AssertsPass(dst, src, bytes) == dst # NULL /\ src # NULL /\ bytes > 0

\* TaskSet_CopyMemory::SetUp called against its contract (a null buffer or no
\* bytes).  With assertions enabled a failed assert aborts the process;
\* with NDEBUG the body of SetUp runs: a zero-length call goes on as usual, an
\* inline memcpy through a null pointer crashes the process, and a parallel
\* call leaves null pointers in the task slots (not followed further).
SetUpViolating(t) ==
    /\ t \in owners
    /\ pc[t] \in {"idle", "returned"}
    /\ \E dst \in {NULL, DstBuf(t)}, src \in {NULL, SrcBuf(t)}, bytes \in {0} \cup CallSizes :
        /\ dst = NULL \/ src = NULL \/ bytes = 0
        /\ args' = [args EXCEPT ![t] = [dst |-> dst, src |-> src,
                                        bytes |-> bytes, ver |-> srcVer[SrcBuf(t)]]]
        /\ IF ~ndebug /\ ~AssertsPass(dst, src, bytes)
           THEN /\ pc' = [pc EXCEPT ![t] = "aborted"]
                /\ UNCHANGED <<usedTaskCount, tasks, mem>>
           ELSE /\ SetUp(t, dst, src, bytes)
                /\ pc' = [pc EXCEPT ![t] =
                        IF dst # NULL /\ src # NULL THEN "execute"
                        ELSE IF usedTaskCount'[t] = 1 THEN "crashed"
                        ELSE "violated"]
    /\ submitted' = [submitted EXCEPT ![t] = 0]
    /\ signalled' = [signalled EXCEPT ![t] = 0]
    /\ copied' = [copied EXCEPT ![t] = {}]
    /\ UNCHANGED <<fixedVars, poolVars, semaphore, srcVer, repeatOf>>

\* TaskSet::Execute: the used tasks, in index order, go to the pool's queue.
RECURSIVE UsedTasks(_, _, _)
UsedTasks(t, i, n) == IF i >= n THEN <<>> ELSE <<<<t, i>>>> \o UsedTasks(t, i + 1, n)

TaskSetExecute(t) == UsedTasks(t, 0, usedTaskCount[t])

\* (mutant) the usedTaskCount_ == 1 return is missing.
ExecuteAlways(t) ==
    /\ pc[t] = "execute"
    /\ queue' = queue \o TaskSetExecute(t)
    /\ submitted' = [submitted EXCEPT ![t] = @ + Len(TaskSetExecute(t))]
    /\ pc' = [pc EXCEPT ![t] = "wait"]
    /\ UNCHANGED <<fixedVars, running, finished, usedTaskCount, tasks,
                   semaphore, args, mem, srcVer, signalled, copied, repeatOf>>

\* (mutant) the call of TaskSet::Execute is missing.
ExecuteNoSubmit(t) ==
    /\ pc[t] = "execute"
    /\ pc' = [pc EXCEPT ![t] = "wait"]
    /\ UNCHANGED <<fixedVars, poolVars, usedTaskCount, tasks, semaphore, args,
                   mem, srcVer, submitted, signalled, copied, repeatOf>>

\* TaskSet_CopyMemory::Execute
Execute(t) ==
    /\ pc[t] = "execute"
    /\ IF usedTaskCount[t] = 1
       THEN UNCHANGED <<queue, submitted>>
       ELSE /\ queue' = queue \o TaskSetExecute(t)
            /\ submitted' = [submitted EXCEPT ![t] = @ + Len(TaskSetExecute(t))]
    /\ pc' = [pc EXCEPT ![t] = "wait"]
    /\ UNCHANGED <<fixedVars, running, finished, usedTaskCount, tasks,
                   semaphore, args, mem, srcVer, signalled, copied, repeatOf>>

\* Semaphore::Wait(n) may return, and what it leaves.
SemCanWait(count, n) == count >= n
SemAfterWait(count, n) == count - n

\* (mutants) Wait waits for one signal less / for a single signal.
WaitCountOneLess(t) == usedTaskCount[t] - 1
WaitCountOne(t) == 1

\* The number of signals TaskSet_CopyMemory::Wait waits for.
WaitCount(t) == usedTaskCount[t]

\* (mutant) the usedTaskCount_ == 1 return is missing.
WaitAlways(t) ==
    /\ pc[t] = "wait"
    /\ SemCanWait(semaphore[t], WaitCount(t))
    /\ semaphore' = [semaphore EXCEPT ![t] = SemAfterWait(@, WaitCount(t))]
    /\ pc' = [pc EXCEPT ![t] = "returned"]
    /\ UNCHANGED <<fixedVars, poolVars, usedTaskCount, tasks, args, mem,
                   srcVer, submitted, signalled, copied, repeatOf>>

\* TaskSet_CopyMemory::Wait
Wait(t) ==
    /\ pc[t] = "wait"
    /\ IF usedTaskCount[t] = 1
       THEN UNCHANGED semaphore
       ELSE /\ SemCanWait(semaphore[t], WaitCount(t))
            /\ semaphore' = [semaphore EXCEPT ![t] = SemAfterWait(@, WaitCount(t))]
    /\ pc' = [pc EXCEPT ![t] = "returned"]
    /\ UNCHANGED <<fixedVars, poolVars, usedTaskCount, tasks, args, mem,
                   srcVer, submitted, signalled, copied, repeatOf>>

\* ---------------------------------------------------------------- ThreadPool
Busy == Cardinality(running) + Cardinality(finished)

\* ThreadPool worker: an idle worker takes the task at the head of the queue.
Dequeue ==
    /\ queue # <<>>
    /\ Busy < poolSize
    /\ running' = running \cup {Head(queue)}
    /\ queue' = Tail(queue)
    /\ UNCHANGED <<fixedVars, finished, usedTaskCount, tasks, semaphore,
                   pc, args, mem, srcVer, submitted, signalled, copied, repeatOf>>

\* ThreadPool worker: task->Execute().
RunTask ==
    \E k \in running :
        /\ mem' = Apply(mem, srcVer, ATaskExecute(tasks[k[1]][k[2]]))
        /\ running' = running \ {k}
        /\ finished' = finished \cup {k}
        /\ copied' = [copied EXCEPT ![k[1]] = @ \cup {k[2]}]
        /\ UNCHANGED <<fixedVars, queue, usedTaskCount, tasks, semaphore,
                       pc, args, srcVer, submitted, signalled, repeatOf>>

\* Task::Done: one signal on the TaskSet's semaphore per executed task.
Done ==
    \E k \in finished :
        /\ semaphore' = [semaphore EXCEPT ![k[1]] = @ + 1]
        /\ signalled' = [signalled EXCEPT ![k[1]] = @ + 1]
        /\ finished' = finished \ {k}
        /\ UNCHANGED <<fixedVars, queue, running, usedTaskCount, tasks,
                       pc, args, mem, srcVer, submitted, copied, repeatOf>>

\* ------------------------------------------------ NIDAQ DigitalOutputPort
\* The return codes of the port.  TranslateNIError(nierr) is "NI_ERROR"; a
\* non-OK code of the hub is "HUB_ERROR".
DEVICE_OK == "DEVICE_OK"
DEVICE_ERR == "DEVICE_ERR"
ERR_SEQUENCE_RUNNING == "ERR_SEQUENCE_RUNNING"
DEVICE_SEQUENCE_TOO_LARGE == "DEVICE_SEQUENCE_TOO_LARGE"
NI_ERROR == "NI_ERROR"
HUB_ERROR == "HUB_ERROR"

\* The port widths the hardware may report (4: a width the adapter rejects).
PortWidths == {4, 8, 16, 32}
\* The task handles the driver hands out.
Handles == {1, 2}
\* The values the State property is set to, the sequences loaded into it and
\* the sequence lengths the hub may allow.
PortStates == {0, 1, 12}
PortSequences == {<<>>, <<12>>, <<1, 0>>}
HubLengths == {1, 2}

\* The outcomes of the NI driver calls one StartOnDemandTask can make.  The
\* calls come one after the other and the first failure ends the function, so
\* an outcome names the call that fails, if any: DAQmxClearTask in StopTask,
\* DAQmxCreateTask, DAQmxCreateDOChan, DAQmxWriteDigitalU8/U32 (nierr != 0,
\* or numWritten != 1); and whether the DAQmxClearTask after the error label
\* succeeds.
Outcomes == [fail : {"none", "clear", "create", "chan", "write", "written"},
             cleanup : BOOLEAN]

\* The record of a call: the handler, its argument, the returned code, whether
\* every NI driver and hub call it made succeeded, where StartOnDemandTask
\* returned ("none": not called), and whether one sample was written.
Call(op, arg, ret, ok, stage, wrote) ==
    [op |-> op, arg |-> arg, ret |-> ret, ok |-> ok, stage |-> stage,
     wrote |-> wrote]

\* DigitalOutputPort::DigitalOutputPort, on a port whose hardware has w pins.
PortConstruct(w) ==
    /\ hwWidth = w
    /\ initialized_ = FALSE
    /\ sequenceRunning_ = FALSE
    /\ blanking_ = FALSE
    /\ pos_ = 0
    /\ portWidth_ = 0
    /\ supportsBlankingAndSequencing_ = FALSE
    /\ task_ = 0
    /\ sequence8_ = <<>>
    /\ sequence16_ = <<>>
    /\ sequence32_ = <<>>
    /\ niTasks = {}
    /\ out = 0
    /\ last = Call("new", 0, DEVICE_OK, TRUE, "none", FALSE)
    /\ sinceStart = FALSE

\* (mutant) StopTask forgets to zero the handle it cleared.
StopTaskKeepsHandle(task, live, clearOk) ==
    IF task = 0 THEN [ret |-> DEVICE_OK, task |-> 0, live |-> live]
    ELSE IF ~clearOk THEN [ret |-> NI_ERROR, task |-> task, live |-> live]
    ELSE [ret |-> DEVICE_OK, task |-> task, live |-> live \ {task}]

\* DigitalOutputPort::StopTask on handle task with the live NI tasks live.
StopTask(task, live, clearOk) ==
    IF task = 0 THEN [ret |-> DEVICE_OK, task |-> 0, live |-> live]
    ELSE IF ~clearOk THEN [ret |-> NI_ERROR, task |-> task, live |-> live]
    ELSE [ret |-> DEVICE_OK, task |-> 0, live |-> live \ {task}]

\* StartOnDemandTask after the label error: the new task h is cleared (the
\* result of DAQmxClearTask is ignored) and task_ zeroed.
ErrorExit(h, live, nierr, ok, o) ==
    [ret |-> IF nierr THEN NI_ERROR ELSE DEVICE_ERR,
     task |-> 0,
     live |-> IF o.cleanup THEN live \ {h} ELSE live,
     out |-> out, ok |-> ok /\ o.cleanup, stage |-> "error", wrote |-> FALSE]

\* The sample StartOnDemandTask writes: (uInt8)state or (uInt32)state (the
\* states of the model are below 2^31, which the cast to uInt32 leaves alone).
Sample(state, width) == IF width = 8 THEN state % 256 ELSE state

\* StartOnDemandTask: the widths that have a write branch.
WritesWidth(width) == width \in {8, 32}

\* (mutant) StartOnDemandTask without the test of sequenceRunning_.
LockedNever(locked) == FALSE

\* StartOnDemandTask: if (sequenceRunning_) return ERR_SEQUENCE_RUNNING.
Locked(locked) == locked

\* DigitalOutputPort::StartOnDemandTask(state) with sequenceRunning_ = locked,
\* the driver's outcomes o and the handle h the driver would hand out.
StartOnDemandTask(state, locked, o, h) ==
    IF Locked(locked)
    THEN [ret |-> ERR_SEQUENCE_RUNNING, task |-> task_, live |-> niTasks,
          out |-> out, ok |-> TRUE, stage |-> "locked", wrote |-> FALSE]
    ELSE LET st == StopTask(task_, niTasks, o.fail # "clear") IN
    IF task_ # 0 /\ st.ret # DEVICE_OK
    THEN [ret |-> st.ret, task |-> st.task, live |-> st.live,
          out |-> out, ok |-> FALSE, stage |-> "stop", wrote |-> FALSE]
    ELSE IF o.fail = "create" \/ h \in st.live
    THEN [ret |-> NI_ERROR, task |-> st.task, live |-> st.live,
          out |-> out, ok |-> FALSE, stage |-> "create", wrote |-> FALSE]
    ELSE LET live1 == st.live \cup {h} IN
    IF o.fail = "chan" THEN ErrorExit(h, live1, TRUE, FALSE, o)
    ELSE IF WritesWidth(portWidth_)
    THEN IF o.fail = "write" THEN ErrorExit(h, live1, TRUE, FALSE, o)
         ELSE IF o.fail = "written" THEN ErrorExit(h, live1, FALSE, FALSE, o)
         ELSE [ret |-> DEVICE_OK, task |-> h, live |-> live1,
               out |-> Sample(state, portWidth_), ok |-> TRUE,
               stage |-> "ok", wrote |-> TRUE]
    ELSE ErrorExit(h, live1, FALSE, TRUE, o)

\* The State property exists: an Initialize got past the hardware query.
HasStateProperty == portWidth_ # 0

\* DigitalOutputPort::Initialize; the hardware query and the hub's blanking
\* probe succeed or fail.  The record says how far the call went: "none" (the
\* early return), "queried" (the hardware query failed) or "created" (the
\* hardware was queried and the properties were created).
Initialize ==
    /\ IF initialized_
       THEN /\ last' = Call("Initialize", 0, DEVICE_OK, TRUE, "none", FALSE)
            /\ UNCHANGED portFields
       ELSE \E queryOk, probeOk \in BOOLEAN :
            IF ~queryOk
            THEN /\ last' = Call("Initialize", 0, NI_ERROR, FALSE, "queried", FALSE)
                 /\ UNCHANGED portFields
            ELSE /\ portWidth_' = hwWidth
                 /\ supportsBlankingAndSequencing_' =
                        (supportsBlankingAndSequencing_
                         \/ (hwWidth \in {8, 16, 32} /\ probeOk))
                 /\ last' = Call("Initialize", 0, DEVICE_OK,
                                 hwWidth \in {8, 16, 32} => probeOk, "created", FALSE)
                 /\ UNCHANGED <<initialized_, sequenceRunning_, blanking_, pos_,
                                task_, sequence8_, sequence16_, sequence32_>>
    /\ UNCHANGED <<hwWidth, niTasks, out, sinceStart, tsVars>>

\* DigitalOutputPort::Shutdown (also run by the destructor).
Shutdown ==
    /\ IF ~initialized_
       THEN /\ last' = Call("Shutdown", 0, DEVICE_OK, TRUE, "none", FALSE)
            /\ UNCHANGED <<portFields, niTasks>>
       ELSE \E clearOk \in BOOLEAN :
            LET st == StopTask(task_, niTasks, clearOk) IN
            /\ task_' = st.task
            /\ niTasks' = st.live
            /\ initialized_' = FALSE
            /\ last' = Call("Shutdown", 0, st.ret, st.ret = DEVICE_OK, "none", FALSE)
            /\ UNCHANGED <<sequenceRunning_, blanking_, pos_, portWidth_,
                           supportsBlankingAndSequencing_,
                           sequence8_, sequence16_, sequence32_>>
    /\ UNCHANGED <<hwWidth, out, sinceStart, tsVars>>

\* OnState, AfterSet: the State property (created by Initialize) is set to pos.
OnStateAfterSet ==
    /\ HasStateProperty
    /\ \E pos \in PortStates, o \in Outcomes, h \in Handles :
        LET r == StartOnDemandTask(pos, sequenceRunning_, o, h) IN
        /\ task_' = r.task
        /\ niTasks' = r.live
        /\ out' = r.out
        /\ pos_' = IF r.ret = DEVICE_OK THEN pos ELSE pos_
        /\ last' = Call("AfterSet", pos, r.ret, r.ok, r.stage, r.wrote)
    /\ UNCHANGED <<hwWidth, initialized_, sequenceRunning_, blanking_, portWidth_,
                   supportsBlankingAndSequencing_,
                   sequence8_, sequence16_, sequence32_,
                   sinceStart, tsVars>>

\* std::istringstream >> uInt8 reads one character: the code of the first
\* decimal digit of the element's text.
RECURSIVE FirstDigit(_)
FirstDigit(v) == IF v < 10 THEN v ELSE FirstDigit(v \div 10)
ParseU8(v) == 48 + FirstDigit(v)

\* std::istringstream >> uInt32 reads the number (below 2^31 in the model).
ParseU32(v) == v

\* OnState, AfterLoadSequence: the sequence of the State property is seq and
\* the hub allows maxLength elements.
OnStateAfterLoadSequence ==
    /\ HasStateProperty
    /\ supportsBlankingAndSequencing_
    /\ \E seq \in PortSequences, maxLength \in HubLengths :
        IF sequenceRunning_
        THEN /\ last' = Call("AfterLoadSequence", 0, ERR_SEQUENCE_RUNNING, TRUE, "none", FALSE)
             /\ UNCHANGED <<sequence8_, sequence16_, sequence32_>>
        ELSE IF Len(seq) > maxLength
        THEN /\ last' = Call("AfterLoadSequence", 0, DEVICE_SEQUENCE_TOO_LARGE, TRUE, "none", FALSE)
             /\ UNCHANGED <<sequence8_, sequence16_, sequence32_>>
        ELSE /\ last' = Call("AfterLoadSequence", 0, DEVICE_OK, TRUE, "none", FALSE)
             /\ sequence8_' = IF portWidth_ = 8
                              THEN [i \in 1..Len(seq) |-> ParseU8(seq[i])]
                              ELSE sequence8_
             /\ sequence16_' = IF portWidth_ = 16
                               THEN [i \in 1..Len(seq) |-> ParseU32(seq[i])]
                               ELSE sequence16_
             /\ sequence32_' = IF portWidth_ = 32
                               THEN [i \in 1..Len(seq) |-> ParseU32(seq[i])]
                               ELSE sequence32_
    /\ UNCHANGED <<hwWidth, initialized_, sequenceRunning_, blanking_, pos_,
                   portWidth_, supportsBlankingAndSequencing_, task_,
                   niTasks, out, sinceStart, tsVars>>

\* OnState, StartSequence: the hub's StartDOSequenceForPort succeeds or fails.
OnStateStartSequence ==
    /\ HasStateProperty
    /\ supportsBlankingAndSequencing_
    /\ \E hubOk \in BOOLEAN :
        LET err == IF portWidth_ \in {8, 16, 32} /\ ~hubOk THEN HUB_ERROR ELSE DEVICE_OK IN
        /\ sequenceRunning_' = (err = DEVICE_OK)
        /\ sinceStart' = (sinceStart \/ err = DEVICE_OK)
        /\ last' = Call("StartSequence", 0, err, err = DEVICE_OK, "none", FALSE)
    /\ UNCHANGED <<hwWidth, initialized_, blanking_, pos_, portWidth_,
                   supportsBlankingAndSequencing_, task_,
                   sequence8_, sequence16_, sequence32_,
                   niTasks, out, tsVars>>

\* OnState, StopSequence: the hub's StopDOSequenceForPort succeeds or fails;
\* after a success the port goes back to on-demand output of pos_.
OnStateStopSequence ==
    /\ HasStateProperty
    /\ supportsBlankingAndSequencing_
    /\ \E hubOk \in BOOLEAN, o \in Outcomes, h \in Handles :
        LET err == IF portWidth_ \in {8, 16, 32} /\ ~hubOk THEN HUB_ERROR ELSE DEVICE_OK
            r == StartOnDemandTask(pos_, FALSE, o, h)
        IN
        /\ sequenceRunning_' = FALSE
        /\ sinceStart' = FALSE
        /\ IF err # DEVICE_OK
           THEN /\ last' = Call("StopSequence", 0, err, FALSE, "none", FALSE)
                /\ UNCHANGED <<task_, niTasks, out>>
           ELSE /\ task_' = r.task
                /\ niTasks' = r.live
                /\ out' = r.out
                /\ last' = Call("StopSequence", 0, r.ret, r.ok, r.stage, r.wrote)
    /\ UNCHANGED <<hwWidth, initialized_, blanking_, pos_, portWidth_,
                   supportsBlankingAndSequencing_,
                   sequence8_, sequence16_, sequence32_,
                   tsVars>>

\* OnBlanking, AfterSet: the Blanking property (created by Initialize on a
\* port that supports blanking) is set to On (b) or Off.  The results of the
\* hub's blanking calls are not looked at.
OnBlankingAfterSet ==
    /\ HasStateProperty
    /\ supportsBlankingAndSequencing_
    /\ \E b \in BOOLEAN, o \in Outcomes, h \in Handles :
        LET r == StartOnDemandTask(pos_, sequenceRunning_, o, h) IN
        IF blanking_ = b \/ b
        THEN /\ blanking_' = b
             /\ last' = Call("Blanking", 0, DEVICE_OK, TRUE, "none", FALSE)
             /\ UNCHANGED <<task_, niTasks, out>>
        ELSE /\ blanking_' = b
             /\ task_' = r.task
             /\ niTasks' = r.live
             /\ out' = r.out
             /\ last' = Call("Blanking", 0, r.ret, r.ok, r.stage, r.wrote)
    /\ UNCHANGED <<hwWidth, initialized_, sequenceRunning_, pos_, portWidth_,
                   supportsBlankingAndSequencing_,
                   sequence8_, sequence16_, sequence32_,
                   sinceStart, tsVars>>

\* ---------------------------------------------------------------- specifications
\* TaskSet_CopyMemory::TaskSet_CopyMemory on a pool of n threads:
\* CreateTasks makes one ATask per pool thread, usedTaskCount_ = pool size.
ConstructAll(n, ts, nd, w) ==
    /\ PortConstruct(w)
    /\ poolSize = n
    /\ owners = ts
    /\ ndebug = nd
    /\ queue = <<>>
    /\ running = {}
    /\ finished = {}
    /\ usedTaskCount = [t \in TaskSets |-> n]
    /\ tasks = [t \in TaskSets |-> [i \in 0..(n - 1) |-> NewATask(i, n)]]
    /\ semaphore = [t \in TaskSets |-> 0]
    /\ pc = [t \in TaskSets |-> "idle"]
    /\ args = [t \in TaskSets |-> [dst |-> NULL, src |-> NULL, bytes |-> 0, ver |-> 0]]
    /\ mem = [b \in Buffers |-> {}]
    /\ srcVer = [b \in Buffers |-> 0]
    /\ submitted = [t \in TaskSets |-> 0]
    /\ signalled = [t \in TaskSets |-> 0]
    /\ copied = [t \in TaskSets |-> {}]
    /\ repeatOf = [t \in TaskSets |-> NoReturn]

\* The same with no NI port attached.
ConstructBuild(n, ts, nd) == ConstructAll(n, ts, nd, 0)

\* The same in a build with assertions enabled.
Construct(n, ts) == ConstructBuild(n, ts, FALSE)

Init == \E n \in 1..MaxPool : Construct(n, {1})

InitShared == \E n \in 1..MaxPoolShared : Construct(n, TaskSets)

Next ==
    \/ \E t \in TaskSets : MemCopy(t)
    \/ \E t \in TaskSets : Execute(t)
    \/ \E t \in TaskSets : Wait(t)
    \/ Dequeue
    \/ RunTask
    \/ Done

\* One TaskSet on a pool of 1..MaxPool threads.
Spec == Init /\ [][Next]_vars

\* MaxTaskSets TaskSets, each with its own caller thread, on one pool.
SpecShared == InitShared /\ [][Next]_vars

\* One TaskSet under fair scheduling: a caller inside MemCopy goes on to its
\* next statement, and the pool's worker threads keep taking, executing and
\* signalling tasks.  Whether the caller calls MemCopy again is up to the caller.
Fairness ==
    /\ \A t \in TaskSets : WF_vars(Execute(t)) /\ WF_vars(Wait(t))
    /\ WF_vars(Dequeue)
    /\ WF_vars(RunTask)
    /\ WF_vars(Done)

InitFair == \E n \in 1..MaxPoolSmall : Construct(n, {1})

SpecFair == InitFair /\ [][Next]_vars /\ Fairness

\* One TaskSet whose caller may also call against the contract of SetUp, in a
\* build with or without assertions.
InitAssert == \E n \in 1..MaxPoolSmall, nd \in BOOLEAN : ConstructBuild(n, {1}, nd)

NextAssert ==
    \/ \E t \in TaskSets : MemCopy(t)
    \/ \E t \in TaskSets : SetUpViolating(t)
    \/ \E t \in TaskSets : Execute(t)
    \/ \E t \in TaskSets : Wait(t)
    \/ Dequeue
    \/ RunTask
    \/ Done

SpecAssert == InitAssert /\ [][NextAssert]_vars

\* One NI digital output port on hardware of any width; the TaskSets stand
\* still.
InitPort == \E w \in PortWidths : ConstructAll(1, {1}, FALSE, w)

NextPort ==
    \/ Initialize
    \/ Shutdown
    \/ OnStateAfterSet
    \/ OnStateAfterLoadSequence
    \/ OnStateStartSequence
    \/ OnStateStopSequence
    \/ OnBlankingAfterSet

SpecPort == InitPort /\ [][NextPort]_vars

\* The task slots of one TaskSet as ATask::SetUp(dst, src, bytes, used) leaves
\* them, for any size and any task count; the slots then run ATask::Execute
\* one by one, in any order.
InitChunks ==
    \E n \in 1..MaxPool, bytes \in ChunkSizes, used \in 1..MaxPool :
        /\ used <= n
        /\ poolSize = n
        /\ owners = {1}
        /\ ndebug = FALSE
        /\ PortConstruct(0)
        /\ queue = <<>>
        /\ running = {}
        /\ finished = {}
        /\ usedTaskCount = [t \in TaskSets |-> IF t = 1 THEN used ELSE n]
        /\ tasks = [t \in TaskSets |-> [i \in 0..(n - 1) |->
                IF t = 1
                THEN ATaskSetUp(NewATask(i, n), DstBuf(1), SrcBuf(1), bytes, used)
                ELSE NewATask(i, n)]]
        /\ semaphore = [t \in TaskSets |-> 0]
        /\ pc = [t \in TaskSets |-> IF t = 1 THEN "slots" ELSE "idle"]
        /\ args = [t \in TaskSets |->
                IF t = 1
                THEN [dst |-> DstBuf(1), src |-> SrcBuf(1), bytes |-> bytes, ver |-> 1]
                ELSE [dst |-> NULL, src |-> NULL, bytes |-> 0, ver |-> 0]]
        /\ mem = [b \in Buffers |-> {}]
        /\ srcVer = [b \in Buffers |-> IF b = SrcBuf(1) THEN 1 ELSE 0]
        /\ submitted = [t \in TaskSets |-> 0]
        /\ signalled = [t \in TaskSets |-> 0]
        /\ copied = [t \in TaskSets |-> {}]
        /\ repeatOf = [t \in TaskSets |-> NoReturn]

\* ATask::Execute of slot i of TaskSet 1.
RunSlot ==
    \E i \in DOMAIN tasks[1] \ copied[1] :
        /\ pc[1] = "slots"
        /\ mem' = Apply(mem, srcVer, ATaskExecute(tasks[1][i]))
        /\ copied' = [copied EXCEPT ![1] = @ \cup {i}]
        /\ UNCHANGED <<fixedVars, poolVars, usedTaskCount, tasks, semaphore,
                       pc, args, srcVer, submitted, signalled, repeatOf>>

NextChunks == RunSlot

SpecChunks == InitChunks /\ [][NextChunks]_vars

\* ---------------------------------------------------------------- claims
\* C1: when MemCopy(dst, src, bytes) has returned, dst[0..bytes) equals the
\* contents src[0..bytes) had before the call, for every pool size, every size
\* (below, at and above the threshold) and every invocation on the reused TaskSet.
C1_CopyCorrect ==
    \A t \in owners :
        pc[t] = "returned" =>
            Equal(mem[args[t].dst], args[t].bytes, args[t].src, args[t].ver)

\* A multi-chunk copy with a remainder has returned on a TaskSet whose
\* destination still holds bytes of an earlier invocation.
C1_Witness ==
    /\ pc[1] = "returned"
    /\ usedTaskCount[1] > 1
    /\ args[1].bytes % usedTaskCount[1] # 0
    /\ \E s \in mem[DstBuf(1)] : s.ver # args[1].ver /\ s.lo >= args[1].bytes
    /\ Equal(mem[DstBuf(1)], args[1].bytes, SrcBuf(1), args[1].ver)

\* C2: in the parallel case Wait() (and so MemCopy) returns only after every
\* task with index < usedTaskCount of this invocation has finished copying its
\* chunk: at the return no used task is still queued or being executed.
C2_WaitAfterAllCopied ==
    \A t \in owners :
        (pc[t] = "returned" /\ usedTaskCount[t] > 1) =>
            /\ copied[t] = 0..(usedTaskCount[t] - 1)
            /\ \A k \in running : k[1] # t
            /\ \A j \in DOMAIN queue : queue[j][1] # t

\* A parallel copy by three tasks has returned.
C2_Witness ==
    /\ pc[1] = "returned"
    /\ usedTaskCount[1] = 3
    /\ copied[1] = {0, 1, 2}
    /\ Outstanding(1) = {}

\* C3: for any bytes > 0 and any usedTaskCount > 1 the chunks of the task
\* indices 0..usedTaskCount-1 cover [0, bytes) exactly once: the first starts at
\* 0, each starts where the previous one ends, the last ends at bytes and has
\* length bytes/usedTaskCount + bytes%usedTaskCount, and a chunk once written is
\* not written again by another task; 3,500,000 bytes on four tasks give four
\* chunks of 875,000.
C3_ChunksPartition ==
    LET used == usedTaskCount[1]
        bytes == args[1].bytes
        op(i) == CHOOSE o \in ATaskExecute(tasks[1][i]) : TRUE
    IN  used > 1 =>
        /\ \A i \in 0..(used - 1) :
            /\ Cardinality(ATaskExecute(tasks[1][i])) = 1
            /\ op(i).len >= 0
            /\ op(i).srcOff = op(i).dstOff
        /\ op(0).dstOff = 0
        /\ \A i \in 0..(used - 2) : op(i).dstOff + op(i).len = op(i + 1).dstOff
        /\ op(used - 1).dstOff + op(used - 1).len = bytes
        /\ op(used - 1).len = (bytes \div used) + (bytes % used)
        /\ (bytes = 3500000 /\ used = 4) => \A i \in 0..3 : op(i).len = 875000
        /\ \A i \in copied[1] \cap 0..(used - 1) :
            op(i).len > 0 =>
                [lo |-> op(i).dstOff, hi |-> op(i).dstOff + op(i).len,
                 from |-> op(i).srcOff, buf |-> SrcBuf(1), ver |-> 1] \in mem[DstBuf(1)]

\* All four tasks of a 3,500,000 byte copy on a pool of four have run.
C3_Witness ==
    /\ pc[1] = "slots"
    /\ poolSize = 4
    /\ args[1].bytes = 3500000
    /\ usedTaskCount[1] = 4
    /\ copied[1] = {0, 1, 2, 3}
    /\ {<<s.lo, s.hi>> : s \in mem[DstBuf(1)]} =
            {<<0, 875000>>, <<875000, 1750000>>, <<1750000, 2625000>>,
             <<2625000, 3500000>>}

C5_SignalsMatchTasks ==
    \A t \in owners :
        /\ signalled[t] <= submitted[t]
        /\ semaphore[t] <= signalled[t]
        /\ (pc[t] = "wait" /\ usedTaskCount[t] > 1) => submitted[t] = usedTaskCount[t]
        /\ (pc[t] = "returned" /\ usedTaskCount[t] > 1) =>
            /\ submitted[t] = usedTaskCount[t]
            /\ signalled[t] = usedTaskCount[t]
        /\ pc[t] \in {"idle", "execute", "returned"} => semaphore[t] = 0

\* A parallel invocation has returned after a larger one on the same TaskSet,
\* with every signal consumed.
C5_Witness ==
    /\ pc[1] = "returned"
    /\ usedTaskCount[1] = 2
    /\ poolSize > 2
    /\ \E s \in mem[DstBuf(1)] : s.lo >= args[1].bytes
    /\ signalled[1] = 2
    /\ semaphore[1] = 0

\* C6: when SetUp computes usedTaskCount = 1 the whole copy is done inside
\* SetUp (dst equals src before Execute is even called), Execute and Wait
\* submit nothing, neither signal nor wait on the semaphore, and never block;
\* the caller sees the same result as on the parallel path.
C6_InlineCopy ==
    \A t \in owners :
        (usedTaskCount[t] = 1 /\ pc[t] # "idle") =>
            /\ Equal(mem[args[t].dst], args[t].bytes, args[t].src, args[t].ver)
            /\ submitted[t] = 0
            /\ signalled[t] = 0
            /\ semaphore[t] = 0
            /\ Outstanding(t) = {}
            /\ pc[t] = "execute" => ENABLED Execute(t)
            /\ pc[t] = "wait" => ENABLED Wait(t)

\* 500,000 bytes were copied inline on a pool of more than one thread, after a
\* parallel invocation had configured the task slots.
C6_Witness ==
    /\ pc[1] = "returned"
    /\ poolSize > 1
    /\ args[1].bytes = 500000
    /\ usedTaskCount[1] = 1
    /\ tasks[1][0].usedTaskCount > 1
    /\ submitted[1] = 0
    /\ Equal(mem[DstBuf(1)], 500000, SrcBuf(1), args[1].ver)

\* C7: TaskSets that run MemCopy concurrently on disjoint buffer pairs against
\* one pool do not interfere: every invocation returns with its own dst equal
\* to its own src and with all of its own tasks done and signalled, every
\* pending signal of a semaphore comes from the TaskSet's own tasks, and no
\* buffer holds a byte copied by another TaskSet.
C7_NoInterference ==
    \A t \in owners :
        /\ pc[t] = "returned" =>
            Equal(mem[DstBuf(t)], args[t].bytes, SrcBuf(t), args[t].ver)
        /\ (pc[t] = "returned" /\ usedTaskCount[t] > 1) =>
            /\ copied[t] = 0..(usedTaskCount[t] - 1)
            /\ signalled[t] = usedTaskCount[t]
            /\ Outstanding(t) = {}
        /\ semaphore[t] <= signalled[t]
        /\ signalled[t] <= submitted[t]
        /\ \A s \in mem[DstBuf(t)] : s.buf = SrcBuf(t)
        /\ mem[SrcBuf(t)] = {}

\* TaskSet 1 has returned from a parallel copy while a task of TaskSet 2 is
\* being executed and another of its tasks has already copied its chunk.
C7_Witness ==
    /\ pc[1] = "returned"
    /\ usedTaskCount[1] > 1
    /\ pc[2] = "wait"
    /\ usedTaskCount[2] > 1
    /\ copied[2] # {}
    /\ \E k \in running : k[1] = 2
    /\ Equal(mem[DstBuf(1)], args[1].bytes, SrcBuf(1), args[1].ver)

\* C8: a task slot whose index is >= usedTaskCount does not take part: its
\* Execute makes no memcpy call, so it reads no byte of src and leaves every
\* buffer as it was, and it changes no semaphore.
C8_UnusedSlotIdle ==
    [][\A i \in DOMAIN tasks[1] :
            (i \in copied'[1] /\ i \notin copied[1] /\ i >= usedTaskCount[1]) =>
                /\ ATaskExecute(tasks[1][i]) = {}
                /\ mem' = mem
                /\ semaphore' = semaphore
                /\ signalled' = signalled]_vars

\* Every slot of a pool of four has run for a copy that uses two tasks.
C8_Witness ==
    /\ pc[1] = "slots"
    /\ poolSize = 4
    /\ usedTaskCount[1] = 2
    /\ args[1].bytes = 2000001
    /\ copied[1] = {0, 1, 2, 3}
    /\ {<<s.lo, s.hi>> : s \in mem[DstBuf(1)]} = {<<0, 1000000>>, <<1000000, 2000001>>}

\* C9: MemCopy is idempotent: a call that repeats the arguments of the previous
\* call (src unchanged) leaves the same bytes in dst and the same observable
\* TaskSet state (usedTaskCount, semaphore count, no outstanding task) as the
\* previous call left.
C9_Idempotent ==
    \A t \in owners :
        (pc[t] = "returned" /\ repeatOf[t] # NoReturn) =>
            /\ args[t] = repeatOf[t].args
            /\ SameContent(mem[DstBuf(t)], repeatOf[t].dst)
            /\ usedTaskCount[t] = repeatOf[t].usedTaskCount
            /\ semaphore[t] = repeatOf[t].semaphore
            /\ Outstanding(t) = {}
            /\ repeatOf[t].outstanding = {}

\* A parallel copy was repeated with the same arguments and has returned.
C9_Witness ==
    /\ pc[1] = "returned"
    /\ repeatOf[1] # NoReturn
    /\ usedTaskCount[1] > 1
    /\ mem[DstBuf(1)] = repeatOf[1].dst

\* The memory the slots in copied[1] leave when they run in index order.
RECURSIVE RunInOrder(_, _)
RunInOrder(m, i) ==
    IF i \notin DOMAIN tasks[1] THEN m
    ELSE RunInOrder(IF i \in copied[1]
                    THEN Apply(m, srcVer, ATaskExecute(tasks[1][i]))
                    ELSE m, i + 1)

\* C10: the result of a parallel copy does not depend on scheduling: in
\* whatever order the tasks have run, dst holds what running them in index
\* order leaves, because the ranges written by two tasks are disjoint and no
\* task reads from the buffer the tasks write.
C10_OrderIndependent ==
    LET used == usedTaskCount[1]
        op(i) == CHOOSE o \in ATaskExecute(tasks[1][i]) : TRUE
    IN  /\ SameContent(mem[DstBuf(1)], RunInOrder([b \in Buffers |-> {}], 0)[DstBuf(1)])
        /\ \A i \in 0..(used - 1) :
            /\ ATaskExecute(tasks[1][i]) # {}
            /\ op(i).src # op(i).dst
            /\ \A j \in 0..(used - 1) :
                i < j => \/ op(i).dstOff + op(i).len <= op(j).dstOff
                         \/ op(j).dstOff + op(j).len <= op(i).dstOff
        /\ mem[SrcBuf(1)] = {}

\* Three tasks have run with the last one first: task 2 has copied its chunk
\* while task 0 has not yet run.
C10_Witness ==
    /\ pc[1] = "slots"
    /\ usedTaskCount[1] = 3
    /\ args[1].bytes = 3500000
    /\ copied[1] = {1, 2}
    /\ {<<s.lo, s.hi>> : s \in mem[DstBuf(1)]} = {<<1166666, 2333332>>, <<2333332, 3500000>>}

\* C11: the semaphore as Wait() uses it: with the workers signalling
\* concurrently and the owner as the only waiter, Wait(usedTaskCount) returns
\* only when at least that many signals have occurred since the last wait, and
\* consumes exactly that many in the same step; the pending count is never
\* negative and equals the signals occurred minus the signals consumed.
C11_SemaphoreContract ==
    /\ [](\A t \in owners :
            /\ semaphore[t] >= 0
            /\ semaphore[t] = signalled[t] -
                (IF pc[t] = "returned" /\ usedTaskCount[t] > 1
                 THEN usedTaskCount[t] ELSE 0))
    /\ [][\A t \in owners :
            (pc[t] = "wait" /\ pc'[t] = "returned" /\ usedTaskCount[t] > 1) =>
                /\ signalled[t] >= usedTaskCount[t]
                /\ semaphore[t] >= usedTaskCount[t]
                /\ semaphore'[t] = semaphore[t] - usedTaskCount[t]]_vars

\* The owner waits for three signals: two are pending and a third worker has
\* finished its task but not yet signalled.
C11_Witness ==
    /\ pc[1] = "wait"
    /\ usedTaskCount[1] = 3
    /\ semaphore[1] = 2
    /\ Cardinality(finished) = 1
    /\ ~ENABLED Wait(1)

\* C12: every task submitted by Execute() is executed and signalled once (it is
\* at any time in exactly one place: the queue, a worker, or done), and under
\* fair scheduling of the workers every MemCopy call returns.
C12_MemCopyReturns ==
    /\ [](\A t \in owners :
            /\ Cardinality({j \in DOMAIN queue : queue[j][1] = t})
                + Cardinality({k \in running \cup finished : k[1] = t})
                + signalled[t] = submitted[t]
            /\ \A i, j \in DOMAIN queue : queue[i] = queue[j] => i = j
            /\ \A j \in DOMAIN queue : queue[j] \notin running \cup finished
            /\ running \cap finished = {}
            /\ Cardinality(copied[t]) = signalled[t]
                + Cardinality({k \in finished : k[1] = t}))
    /\ (pc[1] \in {"execute", "wait"}) ~> (pc[1] = "returned")

\* The caller waits for a parallel copy all of whose tasks are still queued
\* after an earlier invocation on the same TaskSet has returned.
C12_Witness ==
    /\ pc[1] = "wait"
    /\ usedTaskCount[1] = 2
    /\ Len(queue) = 2
    /\ mem[DstBuf(1)] # {}

\* C13: SetUp never touches the pool: it submits no task and neither signals
\* nor waits on the semaphore; in the parallel case it only overwrites the
\* parameters (dst, src, bytes, usedTaskCount) of the existing task slots and
\* writes no byte of dst; the number of task slots and their indices stay.
C13_SetUpFrame ==
    [][\A t \in owners :
            (pc[t] \in {"idle", "returned"} /\ pc'[t] = "execute") =>
                /\ queue' = queue
                /\ running' = running
                /\ finished' = finished
                /\ semaphore' = semaphore
                /\ DOMAIN tasks'[t] = DOMAIN tasks[t]
                /\ \A i \in DOMAIN tasks[t] : tasks'[t][i].taskIndex = tasks[t][i].taskIndex
                /\ usedTaskCount'[t] > 1 =>
                    /\ mem' = mem
                    /\ \A i \in DOMAIN tasks[t] :
                        tasks'[t][i] = [taskIndex |-> i,
                                        usedTaskCount |-> usedTaskCount'[t],
                                        dst |-> args'[t].dst, src |-> args'[t].src,
                                        bytes |-> args'[t].bytes]]_vars

\* SetUp has configured a parallel copy on a reused TaskSet: nothing is queued
\* and dst still holds only what earlier invocations left.
C13_Witness ==
    /\ pc[1] = "execute"
    /\ usedTaskCount[1] > 1
    /\ tasks[1][0].bytes = args[1].bytes
    /\ mem[DstBuf(1)] # {}
    /\ ~Equal(mem[DstBuf(1)], args[1].bytes, SrcBuf(1), args[1].ver)
    /\ queue = <<>> /\ running = {} /\ finished = {}

\* C14: SetUp copies inline, with usedTaskCount = 1 and nothing submitted, every
\* transfer of up to 1,000,000 bytes, and uses min(1 + bytes div 1,000,000,
\* pool size) tasks only for larger transfers; in particular 1,000,000 bytes on
\* a pool of two or more are copied inline.
C14_InlineUpToThreshold ==
    \A t \in owners :
        pc[t] # "idle" =>
            IF args[t].bytes <= 1000000
            THEN usedTaskCount[t] = 1 /\ submitted[t] = 0
            ELSE usedTaskCount[t] = Min(1 + (args[t].bytes \div 1000000), poolSize)

\* C15: when MemCopy returns no task of the TaskSet is queued or held by a
\* worker, so SetUp never overwrites the parameters of a slot in flight, and
\* every task in flight carries the parameters of the invocation that
\* submitted it.
C15_Quiescence ==
    \A t \in owners :
        /\ pc[t] \in {"idle", "returned", "execute"} => Outstanding(t) = {}
        /\ \A k \in Outstanding(t) :
            /\ pc[t] = "wait"
            /\ tasks[t][k[2]] = [taskIndex |-> k[2],
                                 usedTaskCount |-> usedTaskCount[t],
                                 dst |-> args[t].dst, src |-> args[t].src,
                                 bytes |-> args[t].bytes]

\* A task of the second invocation on a TaskSet is being executed, with the
\* parameters of that invocation, while another of its tasks is still queued.
C15_Witness ==
    /\ pc[1] = "wait"
    /\ \E s \in mem[DstBuf(1)] : s.ver # args[1].ver
    /\ \E k \in running : tasks[1][k[2]].bytes = args[1].bytes
    /\ queue # <<>>

\* A step in which SetUp is called with a null buffer or with no bytes.
ViolatingCall(t) ==
    /\ pc[t] \in {"idle", "returned"}
    /\ pc'[t] # pc[t]
    /\ args'[t].dst = NULL \/ args'[t].src = NULL \/ args'[t].bytes = 0

\* What a violating call must leave alone.
RejectedUnchanged(t) ==
    /\ pc'[t] = "aborted"
    /\ usedTaskCount' = usedTaskCount
    /\ tasks' = tasks
    /\ mem' = mem
    /\ semaphore' = semaphore
    /\ queue' = queue /\ running' = running /\ finished' = finished

\* C16 (as stated): a call of SetUp with dst == NULL, src == NULL or bytes == 0
\* fails an assertion before usedTaskCount is changed, a task slot reconfigured
\* or a byte copied: it leaves the TaskSet state and dst unchanged.
C16_ViolationRejected ==
    [][\A t \in owners : ViolatingCall(t) => RejectedUnchanged(t)]_vars

\* C16 (amended): the same in a build with assertions enabled (NDEBUG not
\* defined).
C16_ViolationRejectedInDebugBuild ==
    [][\A t \in owners : (ViolatingCall(t) /\ ~ndebug) => RejectedUnchanged(t)]_vars

\* A violating call was rejected on a TaskSet that an earlier parallel copy
\* has left configured.
C16_Witness ==
    /\ ~ndebug
    /\ pc[1] = "aborted"
    /\ args[1].bytes = 0
    /\ usedTaskCount[1] > 1
    /\ tasks[1][0].bytes > 0
    /\ mem[DstBuf(1)] # {}

\* ------------------------------------------------ NIDAQ DigitalOutputPort claims
\* The stored sequences.
Sequences == <<sequence8_, sequence16_, sequence32_>>

\* C17: for every supported port width (8, 16 and 32 pins), setting State to
\* v (AfterSet) while no sequence is running and with all NI driver calls
\* succeeding returns DEVICE_OK and sets pos_ to v; pos_ changes only when the
\* on-demand write succeeded.
C17_StateWrite ==
    [][/\ (/\ last'.op = "AfterSet"
           /\ portWidth_ \in {8, 16, 32}
           /\ ~sequenceRunning_
           /\ last'.ok)
          => (last'.ret = DEVICE_OK /\ pos_' = last'.arg)
       /\ pos_' # pos_
          => (/\ last'.op = "AfterSet"
              /\ last'.wrote
              /\ pos_' = last'.arg
              /\ out' = Sample(pos_', portWidth_))]_vars

\* The sequence flag after a step, as the claim words it and as the calls
\* set it.
FlagSinceStart == sequenceRunning_' = sinceStart'
FlagFollowsCalls ==
    sequenceRunning_' =
        IF last'.op = "StartSequence" THEN last'.ret = DEVICE_OK
        ELSE IF last'.op = "StopSequence" THEN FALSE
        ELSE sequenceRunning_

\* While a sequence runs, AfterSet and AfterLoadSequence are refused.
LockHolds ==
    (sequenceRunning_ /\ last'.op \in {"AfterSet", "AfterLoadSequence"})
    => (/\ last'.ret = ERR_SEQUENCE_RUNNING
        /\ pos_' = pos_
        /\ task_' = task_
        /\ Sequences' = Sequences)

\* A successful StopSequence leaves the port driven on demand with pos_.
StopResumes ==
    (last'.op = "StopSequence" /\ last'.ret = DEVICE_OK)
    => (/\ ~sequenceRunning_'
        /\ pos_' = pos_
        /\ task_' # 0
        /\ task_' \in niTasks'
        /\ out' = Sample(pos_, portWidth_))

\* C18 (as stated): sequenceRunning_ is true exactly from a successful
\* StartSequence until the next StopSequence; while it is true AfterSet and
\* AfterLoadSequence return ERR_SEQUENCE_RUNNING and leave pos_, task_ and the
\* stored sequence unchanged; after a successful StopSequence the port is
\* driven on demand again with the last pos_.
C18_SequenceLock ==
    [][FlagSinceStart /\ LockHolds /\ StopResumes]_vars

\* C18 (amended): sequenceRunning_ is true from a successful StartSequence
\* until the next StopSequence or the next StartSequence whose hub call
\* fails; the rest as stated.
C18_SequenceLockUntilStopOrFailedStart ==
    [][FlagFollowsCalls /\ LockHolds /\ StopResumes]_vars

\* AfterSet was refused under the lock on a port that holds a task and an
\* earlier State.
C18_Witness ==
    /\ last.op = "AfterSet"
    /\ last.ret = ERR_SEQUENCE_RUNNING
    /\ sequenceRunning_
    /\ task_ # 0
    /\ pos_ = 12
    /\ last.arg = 1

\* C19: after a successful Initialize a second Initialize is a no-op that
\* returns DEVICE_OK without re-querying the hardware or creating properties
\* again; Shutdown stops the on-demand task so that task_ == 0 afterwards;
\* Shutdown on a port that was never initialized does nothing.
C19_Lifecycle ==
    [][/\ (last.op = "Initialize" /\ last.ret = DEVICE_OK /\ last'.op = "Initialize")
          => (last'.ret = DEVICE_OK /\ last'.stage = "none" /\ UNCHANGED portFields)
       /\ (last'.op = "Shutdown" /\ HasStateProperty /\ last'.ok)
          => (last'.ret = DEVICE_OK /\ task_' = 0)
       /\ (last'.op = "Shutdown" /\ ~HasStateProperty)
          => UNCHANGED <<portFields, niTasks, out>>]_vars

\* The port refers to no task or to a live task of the driver.
TaskIsLive == task_ # 0 => task_ \in niTasks

\* The steps in which StartOnDemandTask ran.
OnDemandStep == last'.stage \in {"locked", "stop", "create", "error", "ok"}

\* StartOnDemandTask returned DEVICE_OK: one sample was written, the previous
\* task is cleared and task_ is the new, live task.
OnDemandSuccess ==
    last'.ret = DEVICE_OK
    => (/\ last'.wrote
        /\ task_' # 0
        /\ niTasks' = (niTasks \ {task_}) \cup {task_'}
        /\ task_' \notin (niTasks \ {task_}))

\* C20 (as stated): the port holds at most one NI task; StartOnDemandTask
\* clears the previous task before creating a new one, returns DEVICE_OK only
\* when exactly one sample was written and task_ refers to the new task, and
\* whenever it returns an error the port holds no task (task_ == 0).
C20_TaskHandle ==
    [][/\ TaskIsLive'
       /\ OnDemandStep
          => (/\ OnDemandSuccess
              /\ last'.ret # DEVICE_OK => task_' = 0)]_vars

\* C20 (amended): as stated, except that the port holds no task after the
\* errors that arise once the previous task is cleared (the code is the
\* translated NI error, or DEVICE_ERR when no NI error code exists); on the
\* two early returns, ERR_SEQUENCE_RUNNING under the sequence lock and the NI
\* error of a failed StopTask, task_ is unchanged.
C20_TaskHandleClearedAfterLateErrors ==
    [][/\ TaskIsLive'
       /\ OnDemandStep
          => (/\ OnDemandSuccess
              /\ last'.stage \in {"create", "error"}
                 => (task_' = 0 /\ last'.ret \in {NI_ERROR, DEVICE_ERR})
              /\ last'.stage = "locked"
                 => (task_' = task_ /\ last'.ret = ERR_SEQUENCE_RUNNING)
              /\ last'.stage = "stop"
                 => (task_' = task_ /\ task_ # 0 /\ last'.ret = NI_ERROR)
              /\ last'.stage = "ok" <=> last'.ret = DEVICE_OK)]_vars

\* A write of State failed with numWritten != 1 on an 8-pin port that an
\* earlier write had left with a task: no task is held afterwards.
C20_Witness ==
    /\ last.op = "AfterSet"
    /\ last.stage = "error"
    /\ last.ret = DEVICE_ERR
    /\ portWidth_ = 8
    /\ pos_ = 12
    /\ task_ = 0

====
